---- MODULE Spec2Model ----
(***************************************************************************)
(* Model of python_tool/ai_example.py: the coroutine analyze_image loads a *)
(* prompt file, sends the prompt and the image bytes to the model backend  *)
(* in one call, and turns the text of the response into a result: the      *)
(* parsed JSON, or a dictionary with an "error" key.                       *)
(*                                                                         *)
(* Texts are sequences of one-character strings.  json.loads is modelled   *)
(* by a recursive-descent parser of the JSON grammar restricted to the     *)
(* characters the texts of the model are made of: objects, arrays,         *)
(* unsigned integers, strings without escapes, null, true, false.          *)
(***************************************************************************)
EXTENDS Integers, Sequences, FiniteSets, TLC

VARIABLES pc,            \* position of the current invocation in analyze_image
          invocations,   \* number of invocations started so far
          image_bytes,   \* argument image_bytes
          prompt_status, \* outcome of open(prompt_path).read() in this invocation
          backend,       \* state of the backend call of this invocation
          calls,         \* backend calls issued in this invocation
          sent_mime,     \* mime_type handed to types.Part.from_bytes
          sent_bytes,    \* data handed to types.Part.from_bytes
          response,      \* response.text of the backend's answer
          cleaned,       \* the text handed to json.loads
          result,        \* the value the invocation returned
          prev           \* response text and result of the previous invocation
                         \* (history, kept to compare two invocations)

vars == <<pc, invocations, image_bytes, prompt_status, backend, calls,
          sent_mime, sent_bytes, response, cleaned, result, prev>>

----------------------------------------------------------------------------
(* Bounds *)

MaxInvocations == 2   \* invocations of analyze_image in one behaviour

----------------------------------------------------------------------------
(* Text helpers: str.strip, str.startswith, str.endswith, slicing *)

\* the backtick character (written as a name: the character itself cannot
\* occur in a TLA+ string)
Backtick == "backtick"

Fence == <<Backtick, Backtick, Backtick>>
JsonTag == <<"j", "s", "o", "n">>
FenceJson == Fence \o JsonTag

\* the fence-with-tag prefix the code tests for, and the slice offsets it uses
JsonPrefixLen == 7
FencePrefixLen == 3
FenceSuffixLen == 3

\* characters str.strip() removes (those that occur in the texts of the model)
StripChars == {" ", "\n", "\t"}

RECURSIVE LStrip(_)
LStrip(s) == IF s # <<>> /\ Head(s) \in StripChars THEN LStrip(Tail(s)) ELSE s

RECURSIVE RStrip(_)
RStrip(s) == IF s # <<>> /\ s[Len(s)] \in StripChars
             THEN RStrip(SubSeq(s, 1, Len(s) - 1)) ELSE s

Strip(s) == RStrip(LStrip(s))

StartsWith(s, p) == Len(s) >= Len(p) /\ SubSeq(s, 1, Len(p)) = p

EndsWith(s, p) == Len(s) >= Len(p) /\ SubSeq(s, Len(s) - Len(p) + 1, Len(s)) = p

\* s[k:]
DropFirst(s, k) == SubSeq(s, k + 1, Len(s))

\* s[:-k]
DropLast(s, k) == SubSeq(s, 1, Len(s) - k)

----------------------------------------------------------------------------
(* json.loads *)

JsonWs == {" ", "\n", "\t"}
Digits == {"0", "1"}

NoValue == [t |-> "none", v |-> <<>>]
ParseFail == [ok |-> FALSE, t |-> "none", v |-> <<>>, rest |-> <<>>]
ParseOk(t, v, rest) == [ok |-> TRUE, t |-> t, v |-> v, rest |-> rest]

RECURSIVE SkipWs(_)
SkipWs(s) == IF s # <<>> /\ Head(s) \in JsonWs THEN SkipWs(Tail(s)) ELSE s

RECURSIVE CountDigits(_)
CountDigits(s) == IF s # <<>> /\ Head(s) \in Digits THEN 1 + CountDigits(Tail(s)) ELSE 0

\* NUMBER_RE, integer part without sign: 0 | [1-9][0-9]*
ParseNumber(s) ==
    LET n == IF Head(s) = "0" THEN 1 ELSE CountDigits(s)
    IN ParseOk("number", SubSeq(s, 1, n), DropFirst(s, n))

\* index of the closing quote of the string that starts at s[1], 0 if the
\* string is unterminated or holds a control character (strict mode)
RECURSIVE ClosingQuote(_, _)
ClosingQuote(s, i) ==
    IF i > Len(s) THEN 0
    ELSE IF s[i] = "\"" THEN i
    ELSE IF s[i] \in {"\n", "\t"} THEN 0
    ELSE ClosingQuote(s, i + 1)

ParseString(s) ==
    LET q == ClosingQuote(s, 2)
    IN IF q = 0 THEN ParseFail
       ELSE ParseOk("string", SubSeq(s, 1, q), DropFirst(s, q))

ParseLiteral(s, word, t) ==
    IF StartsWith(s, word) THEN ParseOk(t, word, DropFirst(s, Len(word))) ELSE ParseFail

RECURSIVE ParseValue(_), ParseMembers(_, _), ParseItems(_, _)

\* scanner's _scan_once: one value at the head of s
ParseValue(s) ==
    IF s = <<>> THEN ParseFail
    ELSE CASE Head(s) = "\"" -> ParseString(s)
           [] Head(s) = "{" ->
                LET a == SkipWs(Tail(s))
                IN IF a # <<>> /\ Head(a) = "}"
                   THEN ParseOk("object", <<"{", "}">>, Tail(a))
                   ELSE ParseMembers(a, <<"{">>)
           [] Head(s) = "[" ->
                LET a == SkipWs(Tail(s))
                IN IF a # <<>> /\ Head(a) = "]"
                   THEN ParseOk("array", <<"[", "]">>, Tail(a))
                   ELSE ParseItems(a, <<"[">>)
           [] Head(s) = "n" -> ParseLiteral(s, <<"n", "u", "l", "l">>, "null")
           [] Head(s) = "t" -> ParseLiteral(s, <<"t", "r", "u", "e">>, "boolean")
           [] Head(s) = "f" -> ParseLiteral(s, <<"f", "a", "l", "s", "e">>, "boolean")
           [] Head(s) \in Digits -> ParseNumber(s)
           [] OTHER -> ParseFail

\* JSONObject: s is at a property name, acc is the object's text so far
ParseMembers(s, acc) ==
    IF s = <<>> \/ Head(s) # "\"" THEN ParseFail
    ELSE LET k == ParseString(s)
             a == SkipWs(k.rest)
         IN IF ~k.ok \/ a = <<>> \/ Head(a) # ":" THEN ParseFail
            ELSE LET val == ParseValue(SkipWs(Tail(a)))
                     b == SkipWs(val.rest)
                     acc2 == acc \o k.v \o <<":">> \o val.v
                 IN IF ~val.ok \/ b = <<>> THEN ParseFail
                    ELSE IF Head(b) = "}" THEN ParseOk("object", acc2 \o <<"}">>, Tail(b))
                    ELSE IF Head(b) = "," THEN ParseMembers(SkipWs(Tail(b)), acc2 \o <<",">>)
                    ELSE ParseFail

\* JSONArray: s is at an item, acc is the array's text so far
ParseItems(s, acc) ==
    LET val == ParseValue(s)
        b == SkipWs(val.rest)
        acc2 == acc \o val.v
    IN IF ~val.ok \/ b = <<>> THEN ParseFail
       ELSE IF Head(b) = "]" THEN ParseOk("array", acc2 \o <<"]">>, Tail(b))
       ELSE IF Head(b) = "," THEN ParseItems(SkipWs(Tail(b)), acc2 \o <<",">>)
       ELSE ParseFail

\* json.loads(s): one value between optional whitespace, nothing after it.
\* ok = FALSE stands for JSONDecodeError.
JsonLoads(s) ==
    LET val == ParseValue(SkipWs(s))
    IN IF val.ok /\ SkipWs(val.rest) = <<>>
       THEN [ok |-> TRUE, value |-> [t |-> val.t, v |-> val.v]]
       ELSE [ok |-> FALSE, value |-> NoValue]

----------------------------------------------------------------------------
(* Inputs *)

\* image_bytes: no bytes, the bytes of a JPEG file, the bytes of a PNG file
\* (one token for the file signature, one for the rest)
EmptyImage == <<>>
JpegImage == <<"JPEG_SOI", "data">>
PngImage == <<"PNG_SIG", "data">>
Images == {EmptyImage, JpegImage, PngImage}

\* whitespace around a response text: <<leading, trailing>>
Pads == { << <<>>, <<>> >>, << <<" ">>, <<>> >>, << <<"\n">>, <<" ", "\n">> >> }

Bodies == { <<"{", "}">>,
            <<"{", "\"", "a", "\"", ":", " ", "1", "}">>,
            <<"[", "1", ",", "0", "]">>,
            <<"1">>,
            <<"\"", "a", "\"">>,
            <<"n", "u", "l", "l">>,
            <<"x">>,
            <<>>,
            <<"1", Backtick, Backtick, Backtick, "1">> }

Openings == { <<>>, Fence \o <<"\n">>, FenceJson \o <<"\n">> }
Closings == { <<>>, <<"\n">> \o Fence }

\* the response texts the backend answers with
ResponseTexts ==
    { p[1] \o o \o b \o c \o p[2] :
        p \in Pads, o \in Openings, b \in Bodies, c \in Closings }

\* language tags of a fenced block: none, json, another language
Tags == { <<>>, JsonTag, <<"p", "y">> }

\* text wrapped in a matched pair of fences, the opening one carrying tag
Fenced(text, tag) == Fence \o tag \o <<"\n">> \o text \o <<"\n">> \o Fence

----------------------------------------------------------------------------
(* Results of analyze_image *)

NoResult == [tag |-> "none", value |-> NoValue, has_raw |-> FALSE, raw_response |-> <<>>]

\* {"error": "Prompt file not found at ..."}
PromptNotFoundResult ==
    [tag |-> "prompt_not_found", value |-> NoValue, has_raw |-> FALSE, raw_response |-> <<>>]

\* {"error": "API call failed: ..."}
ApiFailedResult ==
    [tag |-> "api_failed", value |-> NoValue, has_raw |-> FALSE, raw_response |-> <<>>]

\* the parsed JSON value itself
ParsedResult(value) ==
    [tag |-> "parsed", value |-> value, has_raw |-> FALSE, raw_response |-> <<>>]

\* {"error": "Failed to parse JSON response", "raw_response": response.text}
JsonErrorResult(raw) ==
    [tag |-> "json_error", value |-> NoValue, has_raw |-> TRUE, raw_response |-> raw]

\* {"error": "Unexpected error during parsing: ..."}
UnexpectedErrorResult ==
    [tag |-> "unexpected_error", value |-> NoValue, has_raw |-> FALSE, raw_response |-> <<>>]

----------------------------------------------------------------------------
(* Cleaning and parsing of the response text *)

\* mutant: the opening fence is removed only when a closing fence matches it
StripOpeningFence_Matched(t) ==
    IF ~EndsWith(t, Fence) THEN t
    ELSE IF StartsWith(t, FenceJson) THEN DropFirst(t, JsonPrefixLen)
    ELSE IF StartsWith(t, Fence) THEN DropFirst(t, FencePrefixLen)
    ELSE t

\* if response_text.startswith("```json"): [7:]  elif startswith("```"): [3:]
StripOpeningFence(t) ==
    IF StartsWith(t, FenceJson) THEN DropFirst(t, JsonPrefixLen)
    ELSE IF StartsWith(t, Fence) THEN DropFirst(t, FencePrefixLen)
    ELSE t

\* mutant: the closing fence is left in place
StripClosingFence_Kept(t) == t

\* if response_text.endswith("```"): [:-3]
StripClosingFence(t) ==
    IF EndsWith(t, Fence) THEN DropLast(t, FenceSuffixLen) ELSE t

\* the text handed to json.loads
CleanText(text) == Strip(StripClosingFence(StripOpeningFence(Strip(text))))

\* mutant: the raw text reported is the trimmed text
DecodeErrorResult_Trimmed(resp) == JsonErrorResult(Strip(resp.text))

\* the value returned on JSONDecodeError
DecodeErrorResult(resp) == JsonErrorResult(resp.text)

\* the value returned when json.loads returned value
LoadedResult(value) == ParsedResult(value)

\* the try block at "Parse the response" with its two handlers
ExtractResult(resp) ==
    IF resp.none THEN UnexpectedErrorResult
    ELSE LET r == JsonLoads(CleanText(resp.text))
         IN IF r.ok THEN LoadedResult(r.value) ELSE DecodeErrorResult(resp)

----------------------------------------------------------------------------
(* The state machine *)

NoResponse == [none |-> TRUE, text |-> <<>>]
TextResponse(text) == [none |-> FALSE, text |-> text]
NoCleaned == [set |-> FALSE, text |-> <<>>]
NoPrev == [has |-> FALSE, text |-> <<>>, result |-> NoResult]

\* the mime type the call labels the image with
SentMimeType == "image/jpeg"

Init ==
    /\ pc = "idle"
    /\ invocations = 0
    /\ image_bytes = EmptyImage
    /\ prompt_status = "unread"
    /\ backend = "idle"
    /\ calls = 0
    /\ sent_mime = "none"
    /\ sent_bytes = <<>>
    /\ response = NoResponse
    /\ cleaned = NoCleaned
    /\ result = NoResult
    /\ prev = NoPrev

\* a caller awaits analyze_image(img)
Invoke(img) ==
    /\ pc \in {"idle", "done", "raised"}
    /\ invocations < MaxInvocations
    /\ invocations' = invocations + 1
    /\ pc' = "load_prompt"
    /\ image_bytes' = img
    /\ prompt_status' = "unread"
    /\ backend' = "idle"
    /\ calls' = 0
    /\ sent_mime' = "none"
    /\ sent_bytes' = <<>>
    /\ response' = NoResponse
    /\ cleaned' = NoCleaned
    /\ result' = NoResult
    /\ prev' = IF pc = "done" /\ backend = "returned" /\ ~response.none
               THEN [has |-> TRUE, text |-> response.text, result |-> result]
               ELSE NoPrev

\* open(prompt_path).read() succeeds
LoadPrompt ==
    /\ pc = "load_prompt"
    /\ prompt_status' = "loaded"
    /\ pc' = "call"
    /\ UNCHANGED <<invocations, image_bytes, backend, calls, sent_mime, sent_bytes,
                   response, cleaned, result, prev>>

\* mutant: the handler of FileNotFoundError does not return
PromptNotFound_FallThrough ==
    /\ pc = "load_prompt"
    /\ prompt_status' = "not_found"
    /\ pc' = "call"
    /\ UNCHANGED <<invocations, image_bytes, backend, calls, sent_mime, sent_bytes,
                   response, cleaned, result, prev>>

\* open(prompt_path) raises FileNotFoundError
PromptNotFound ==
    /\ pc = "load_prompt"
    /\ prompt_status' = "not_found"
    /\ result' = PromptNotFoundResult
    /\ pc' = "done"
    /\ UNCHANGED <<invocations, image_bytes, backend, calls, sent_mime, sent_bytes,
                   response, cleaned, prev>>

\* open(prompt_path) or f.read() raises another exception (IsADirectoryError,
\* PermissionError, UnicodeDecodeError): no handler, it leaves analyze_image
PromptReadFails ==
    /\ pc = "load_prompt"
    /\ prompt_status' = "read_failed"
    /\ pc' = "raised"
    /\ UNCHANGED <<invocations, image_bytes, backend, calls, sent_mime, sent_bytes,
                   response, cleaned, result, prev>>

\* await asyncio.to_thread(client.models.generate_content, ...)
CallBackend ==
    /\ pc = "call"
    /\ calls' = calls + 1
    /\ sent_mime' = SentMimeType
    /\ sent_bytes' = image_bytes
    /\ backend' = "pending"
    /\ pc' = "await"
    /\ UNCHANGED <<invocations, image_bytes, prompt_status, response, cleaned, result, prev>>

\* generate_content returns a response whose .text is resp
BackendReturns(resp) ==
    /\ pc = "await"
    /\ backend' = "returned"
    /\ response' = resp
    /\ pc' = "parse"
    /\ UNCHANGED <<invocations, image_bytes, prompt_status, calls, sent_mime, sent_bytes,
                   cleaned, result, prev>>

\* mutant: a failed call is issued again, up to two more times
BackendRaises_Retry ==
    /\ pc = "await"
    /\ backend' = "raised"
    /\ IF calls < 3
       THEN pc' = "call" /\ UNCHANGED result
       ELSE pc' = "done" /\ result' = ApiFailedResult
    /\ UNCHANGED <<invocations, image_bytes, prompt_status, calls, sent_mime, sent_bytes,
                   response, cleaned, prev>>

\* mutant: the handler of the failed call does not return
BackendRaises_FallThrough ==
    /\ pc = "await"
    /\ backend' = "raised"
    /\ pc' = "parse"
    /\ UNCHANGED <<invocations, image_bytes, prompt_status, calls, sent_mime, sent_bytes,
                   response, cleaned, result, prev>>

\* generate_content raises: except Exception returns the API error
BackendRaises ==
    /\ pc = "await"
    /\ backend' = "raised"
    /\ result' = ApiFailedResult
    /\ pc' = "done"
    /\ UNCHANGED <<invocations, image_bytes, prompt_status, calls, sent_mime, sent_bytes,
                   response, cleaned, prev>>

\* the try block at "Parse the response"
ParseResponse ==
    /\ pc = "parse"
    /\ cleaned' = IF response.none THEN NoCleaned
                  ELSE [set |-> TRUE, text |-> CleanText(response.text)]
    /\ result' = ExtractResult(response)
    /\ pc' = "done"
    /\ UNCHANGED <<invocations, image_bytes, prompt_status, backend, calls, sent_mime,
                   sent_bytes, response, prev>>

\* the texts the backend may answer with in the current state
Answers ==
    {NoResponse} \cup {TextResponse(t) : t \in ResponseTexts}
    \cup (IF prev.has THEN {TextResponse(Fenced(prev.text, tag)) : tag \in Tags} ELSE {})

Next ==
    \/ \E img \in Images : Invoke(img)
    \/ LoadPrompt
    \/ PromptNotFound
    \/ PromptReadFails
    \/ CallBackend
    \/ \E resp \in Answers : BackendReturns(resp)
    \/ BackendRaises
    \/ ParseResponse

Spec == Init /\ [][Next]_vars

----------------------------------------------------------------------------
(* Properties *)

\* the invocation returned after the backend answered with a text
AnsweredWithText == pc = "done" /\ backend = "returned" /\ ~response.none

\* the invocation is in, or went through, the try block that parses the response
ExtractionEntered ==
    pc = "parse" \/ result.tag \in {"parsed", "json_error", "unexpected_error"}

\* this invocation's response is the previous invocation's response wrapped
\* in a matched pair of fences carrying one of tags
WrappedRun(tags) ==
    /\ AnsweredWithText
    /\ prev.has
    /\ \E tag \in tags : response.text = Fenced(prev.text, tag)

\* the mime type of an image, read from its file signature
MimeOf(bytes) == IF bytes[1] = "PNG_SIG" THEN "image/png" ELSE "image/jpeg"

\* C1 (as stated): the result of extracting a text wrapped in a matched pair
\* of fences, with any language tag or none, equals the result of extracting
\* the text itself, whether the text parses or not.
C1_FenceTransparency == WrappedRun(Tags) => result = prev.result

\* C1 (amended): wrapping a text in a matched pair of fences with no tag or
\* the tag json leaves the result unchanged when the text, trimmed, is valid
\* JSON; when extracting the text is a parse failure, extracting the wrapped
\* text is a parse failure too, and its raw text is the wrapped response.
C1_FenceTransparencyJson ==
    WrappedRun({<<>>, JsonTag}) =>
        /\ JsonLoads(Strip(prev.text)).ok => result = prev.result
        /\ prev.result.tag = "json_error" =>
              /\ result.tag = "json_error"
              /\ result.raw_response = response.text

C1_Witness ==
    /\ WrappedRun({JsonTag})
    /\ JsonLoads(Strip(prev.text)).ok
    /\ result.tag = "parsed"
    /\ result.value.t = "object"

\* C2 (as stated): for a response text that is not valid JSON the result is
\* the parse failure whose raw text is the trimmed response text.
C2_RawTextTrimmed ==
    (AnsweredWithText /\ ~JsonLoads(response.text).ok) =>
        /\ result.tag = "json_error"
        /\ result.raw_response = Strip(response.text)

\* C2 (amended): when the trimmed and fence-stripped response text is not
\* valid JSON, the result is the parse failure whose raw text is the response
\* text as received, neither trimmed nor fence-stripped.
C2_RawTextAsReceived ==
    (AnsweredWithText /\ ~JsonLoads(cleaned.text).ok) =>
        /\ cleaned.set
        /\ result.tag = "json_error"
        /\ result.has_raw
        /\ result.raw_response = response.text

C2_Witness ==
    /\ AnsweredWithText
    /\ result.tag = "json_error"
    /\ Strip(response.text) # response.text
    /\ cleaned.text # Strip(response.text)

\* C3: a response text that is valid JSON after trimming and fence stripping
\* but whose value is not an object never gives a successful result.
C3_NonObjectIsFailure ==
    (AnsweredWithText /\ JsonLoads(cleaned.text).ok
        /\ JsonLoads(cleaned.text).value.t # "object") => result.tag # "parsed"

\* C4: no exception leaves analyze_image, whatever stage fails.
C4_NoExceptionEscapes == pc # "raised"

\* C5 (as stated): a trimmed response text with an opening fence and no
\* closing fence, or a closing fence and no opening fence, is handed to the
\* JSON parser whole.
C5_OnlyMatchedPairs ==
    cleaned.set =>
        LET t == Strip(response.text)
        IN (StartsWith(t, Fence) # EndsWith(t, Fence)) => cleaned.text = t

\* C5 (amended): the two fences are stripped independently: an opening fence
\* (with the tag json when it follows) is removed although no closing fence
\* ends the text, a closing fence is removed although no opening fence starts
\* the text, and the rest, trimmed, is handed to the JSON parser.
C5_FencesStrippedIndependently ==
    cleaned.set =>
        LET t == Strip(response.text)
        IN /\ (StartsWith(t, Fence) /\ ~EndsWith(t, Fence)) =>
                 cleaned.text =
                    Strip(DropFirst(t, IF StartsWith(t, FenceJson) THEN 7 ELSE 3))
           /\ (~StartsWith(t, Fence) /\ EndsWith(t, Fence)) =>
                 cleaned.text = Strip(DropLast(t, 3))

C5_Witness ==
    /\ AnsweredWithText
    /\ StartsWith(Strip(response.text), FenceJson)
    /\ ~EndsWith(Strip(response.text), Fence)
    /\ result.tag = "parsed"

\* C6: an invocation with an empty payload never calls the backend.
C6_EmptyPayloadRejected ==
    (pc # "idle" /\ image_bytes = EmptyImage) => calls = 0

\* C7 (as stated): the API failure is returned only after the first attempt
\* and two retries have failed.
C7_RetriesBeforeUnavailable ==
    (pc = "done" /\ result.tag = "api_failed") => calls = 3

\* C7 (amended): a backend call that fails is not attempted again: an
\* invocation calls the backend at most once and returns the API failure
\* after that one attempt.
C7_SingleAttempt ==
    /\ calls <= 1
    /\ (pc = "done" /\ result.tag = "api_failed") => (calls = 1 /\ backend = "raised")

C7_Witness == pc = "done" /\ result.tag = "api_failed" /\ calls = 1

\* C8: a backend call is made only after the prompt was loaded, and an
\* invocation whose prompt file is not found returns the prompt failure
\* without calling the backend.
C8_PromptBeforeBackend ==
    /\ calls > 0 => prompt_status = "loaded"
    /\ prompt_status = "not_found" =>
          /\ pc = "done"
          /\ result = PromptNotFoundResult
          /\ calls = 0
          /\ backend = "idle"

C8_Witness == pc = "done" /\ prompt_status = "not_found" /\ calls = 0

\* C9: an invocation whose backend call failed returns the API failure and
\* never enters the extraction; the extraction is entered only after a
\* backend call that returned a response.
C9_NoExtractionAfterBackendFailure ==
    /\ backend = "raised" =>
          /\ pc = "done"
          /\ result = ApiFailedResult
          /\ ~cleaned.set
          /\ ~ExtractionEntered
    /\ ExtractionEntered => (backend = "returned" /\ calls = 1)

C9_Witness == pc = "done" /\ backend = "raised" /\ result.tag = "api_failed"

\* C10: the mime type sent with a payload is the mime type of the image.
C10_MimeMatchesImage ==
    (calls > 0 /\ sent_bytes # EmptyImage) => sent_mime = MimeOf(sent_bytes)

====
